---- MODULE Spec2Model ----
(***************************************************************************)
(* A model of the w2_matrix raster-graphics crate: the dense row-major     *)
(* Matrix (src/src/graphics/matrix.rs) and the PPMImg pixel surface with   *)
(* its line rasterizer, turtle and edge-matrix renderer                    *)
(* (src/src/graphics.rs).                                                  *)
(*                                                                         *)
(* Conventions.  Rust vectors are 0-based, TLA+ sequences 1-based: At      *)
(* reads a sequence at a 0-based index.  An f64 matrix cell is modelled by *)
(* an integer (the values used are small integers, on which f64 + and *    *)
(* are exact).  An f64 coordinate is the record [h, neg, t] standing for   *)
(* the real h/2 + s * T * 2^-106: h counts half units, T is the natural    *)
(* number whose digits of base 2^16 are t (least significant first, no     *)
(* leading zero) and s is -1 when neg holds, +1 otherwise.  T * 2^-106 is  *)
(* below 1/4, so the record of a value is unique; FromHalf(h) is the       *)
(* coordinate h/2.  The parts below half a unit are what sin and cos leave *)
(* at the right angles, and what f64 addition keeps of them; -0.0 is not   *)
(* told from 0.0, and NaN and the infinities are no values of the model.   *)
(* A call that panics yields Panic(msg); a call that returns yields        *)
(* Ok(value).                                                              *)
(***************************************************************************)
EXTENDS Integers, Sequences, FiniteSets, TLC

VARIABLES a, b, img, tur, call, steps

vars == <<a, b, img, tur, call, steps>>

----------------------------------------------------------------------------
(* Bounds of the model *)

\* largest row / column count of the matrices drawn as inputs
MaxDim == 2
\* matrix cells, set values and appended rows are built from 0..MaxSeed
MaxSeed == 1
\* number of mutating calls made on one matrix
MaxOps == 2

\* largest width / height of the surfaces plotted on
MaxExt == 2
\* largest depth (maximum channel value) of those surfaces
MaxDepth == 1
\* number of calls made on one surface, and on one turtle
MaxImgOps == 3
MaxTurtleOps == 3
\* side of the surface lines are drawn on; endpoints range over -1 .. MaxCoord
MaxCoord == 4
\* largest row and column count of the matrices rendered as edge lists
MaxEdgeRows == 5
MaxEdgeCols == 4

----------------------------------------------------------------------------
(* Results of calls *)

Ok(v) == [panic |-> FALSE, val |-> v]
Panic(msg) == [panic |-> TRUE, msg |-> msg]
None == [some |-> FALSE]
Some(v) == [some |-> TRUE, v |-> v]

At(seq, i) == seq[i + 1]
Min(x, y) == IF x < y THEN x ELSE y
Abs(x) == IF x < 0 THEN -x ELSE x

----------------------------------------------------------------------------
(* Matrix: src/src/graphics/matrix.rs *)

Matrix(rows, cols, data) == [rows |-> rows, cols |-> cols, data |-> data]

\* fn index: row major
Matrix_index(self, row, col) == row * self.cols + col

\* Matrix::new / new_clone_vec: assert_eq!(rows * cols, data.len())
Matrix_new(rows, cols, data) ==
    IF rows * cols # Len(data)
    THEN Panic("rows * cols must == data.len()")
    ELSE Ok(Matrix(rows, cols, data))

Matrix_new_clone_vec(rows, cols, data) == Matrix_new(rows, cols, data)

\* Matrix::get: the guard is row > rows || col > cols; the Vec index panics
\* when it is past the buffer
Matrix_get(self, row, col) ==
    IF row > self.rows \/ col > self.cols
    THEN Ok(None)
    ELSE LET i == Matrix_index(self, row, col)
         IN IF i < Len(self.data)
            THEN Ok(Some(At(self.data, i)))
            ELSE Panic("index out of bounds")

\* Matrix::set: assert!(row < rows && col < cols)
Matrix_set(self, row, col, data) ==
    IF ~(row < self.rows /\ col < self.cols)
    THEN Panic("Index out of bound")
    ELSE LET i == Matrix_index(self, row, col)
         IN Ok([self EXCEPT !.data = [self.data EXCEPT ![i + 1] = data]])

\* append_row with the row count left as it was
Matrix_append_row_rows_kept(self, row) ==
    IF self.cols # Len(row)
    THEN Panic("Length of edge and matrix column size don't match")
    ELSE Ok([self EXCEPT !.data = self.data \o row])

\* Matrix::append_row
Matrix_append_row(self, row) ==
    IF self.cols # Len(row)
    THEN Panic("Length of edge and matrix column size don't match")
    ELSE Ok([self EXCEPT !.data = self.data \o row, !.rows = self.rows + 1])

\* Matrix::append_edge: pushes the homogeneous 1.0 before appending
Matrix_append_edge(self, edge) ==
    IF self.cols # Len(edge) + 1
    THEN Panic("Length of edge and matrix column size don't match")
    ELSE Ok([self EXCEPT !.data = self.data \o Append(edge, 1),
                         !.rows = self.rows + 1])

\* Iterator::skip(n) and Iterator::step_by(step) on a sequence
Skip(seq, n) == SubSeq(seq, n + 1, Len(seq))
StepBy(seq, step) ==
    [k \in 1..((Len(seq) + step - 1) \div step) |-> seq[(k - 1) * step + 1]]
\* Iterator::zip stops at the shorter side
Zip(s, t) == [k \in 1..Min(Len(s), Len(t)) |-> <<s[k], t[k]>>]

\* Matrix::row_iter: the contiguous slice of row r
Matrix_row_iter(self, r) ==
    LET start == r * self.cols
    IN SubSeq(self.data, start + 1, start + self.cols)

\* Matrix::col_iter: data.iter().skip(c).step_by(cols)
Matrix_col_iter(self, c) == StepBy(Skip(self.data, c), self.cols)

\* Matrix::iter_by_row: data.chunks(cols); slice::chunks panics on size 0 and
\* leaves a shorter last chunk when the length is no multiple of the size
Matrix_iter_by_row(self) ==
    IF self.cols = 0
    THEN Panic("chunk size must be non-zero")
    ELSE Ok([k \in 1..((Len(self.data) + self.cols - 1) \div self.cols) |->
               SubSeq(self.data, (k - 1) * self.cols + 1,
                      Min(k * self.cols, Len(self.data)))])

\* Matrix::index_to_rc
Matrix_index_to_rc(i, cols) == <<i \div cols, i % cols>>

\* .fold(0.0, |sum, (a, b)| sum + a * b), left to right
RECURSIVE FoldDot(_, _)
FoldDot(sum, pairs) ==
    IF pairs = <<>> THEN sum
    ELSE FoldDot(sum + Head(pairs)[1] * Head(pairs)[2], Tail(pairs))

\* Matrix::mul: self * other
Matrix_mul(self, other) ==
    IF self.cols # other.rows
    THEN Panic("cols of m1 must == rows of m2")
    ELSE LET frows == self.rows
             fcols == other.cols
             fdata == [i \in 1..(frows * fcols) |->
                         LET rc == Matrix_index_to_rc(i - 1, fcols)
                         IN FoldDot(0, Zip(Matrix_row_iter(self, rc[1]),
                                           Matrix_col_iter(other, rc[2])))]
         IN Matrix_new(frows, fcols, fdata)

\* mul_mut_b computing b * a
Matrix_mul_mut_b_swapped(ma, mb) == Matrix_mul(mb, ma)

\* Matrix::mul_mut_b: *b = a.mul(b); the result is the new b
Matrix_mul_mut_b(ma, mb) == Matrix_mul(ma, mb)

\* to_ident writing the diagonal only
Matrix_to_ident_diag_only(self) ==
    LET cols == self.cols
    IN [self EXCEPT !.data =
          [i \in 1..Len(self.data) |->
             LET rc == Matrix_index_to_rc(i - 1, cols)
             IN IF rc[1] = rc[2] THEN 1 ELSE self.data[i]]]

\* Matrix::to_ident: every cell by its row and column under the current cols
Matrix_to_ident(self) ==
    LET cols == self.cols
    IN [self EXCEPT !.data =
          [i \in 1..Len(self.data) |->
             LET rc == Matrix_index_to_rc(i - 1, cols)
             IN IF rc[1] = rc[2] THEN 1 ELSE 0]]

\* the loop of Matrix::ident: for i in 0..size { m.set(i, i, 1.0) }
RECURSIVE IdentLoop(_, _, _)
IdentLoop(res, i, size) ==
    IF i >= size \/ res.panic THEN res
    ELSE IdentLoop(Matrix_set(res.val, i, i, 1), i + 1, size)

\* Matrix::ident
Matrix_ident(size) ==
    IdentLoop(Matrix_new(size, size, [i \in 1..(size * size) |-> 0]), 0, size)

----------------------------------------------------------------------------
(* PPMImg: src/src/graphics.rs *)

RGB(r, g, bl) == [red |-> r, green |-> g, blue |-> bl]

\* PPMImg::new: bg black, fg white scaled to depth, wraparound off,
\* data = vec![bg_color; width * height]
PPMImg_new(height, width, depth) ==
    LET bg_color == RGB(0, 0, 0)
    IN [height |-> height, width |-> width, depth |-> depth,
        x_wrap |-> FALSE, y_wrap |-> FALSE,
        fg_color |-> RGB(depth, depth, depth),
        bg_color |-> bg_color,
        data |-> [i \in 1..(width * height) |-> bg_color]]

\* clear writing black, the background of a new surface
PPMImg_clear_black(self) ==
    [self EXCEPT !.data = [i \in 1..Len(self.data) |-> RGB(0, 0, 0)]]

\* PPMImg::clear: every element becomes the current bg_color
PPMImg_clear(self) ==
    LET bg == self.bg_color
    IN [self EXCEPT !.data = [i \in 1..Len(self.data) |-> bg]]

\* Rust's % on i32: the remainder takes the sign of the dividend
Rem(x, n) == IF x >= 0 THEN x % n ELSE -((-x) % n)

\* the reduction without the adjustment of a negative remainder
WrapCoord_truncated(x, width) ==
    IF x >= width THEN Rem(x, width)
    ELSE IF x < 0 THEN Rem(x, width) ELSE x

\* the reduction plot applies to one coordinate
WrapCoord(x, width) ==
    IF x >= width THEN Rem(x, width)
    ELSE IF x < 0
         THEN LET r == Rem(x, width) IN IF r # 0 THEN r + width ELSE r
         ELSE x

\* fn index (PPMImg)
PPMImg_index(self, x, y) == y * self.width + x

\* PPMImg::plot
PPMImg_plot(self, x, y) ==
    LET width == self.width
        height == self.height
    IN IF (~self.x_wrap /\ (x < 0 \/ x >= width))
          \/ (~self.y_wrap /\ (y < 0 \/ y >= height))
       THEN self
       ELSE LET xw == WrapCoord(x, width)
                yw == WrapCoord(y, height)
                index == PPMImg_index(self, xw, yw)
            IN [self EXCEPT !.data = [self.data EXCEPT ![index + 1] = self.fg_color]]

\* f64::round of the real h/2: to the nearest integer, halves away from zero
Round(h) == IF h >= 0 THEN (h + 1) \div 2 ELSE -((1 - h) \div 2)

\* natural numbers of any size as digits of base 2^16, least significant
\* first
Base == 2 ^ 16

\* the digits without leading zeros
RECURSIVE BNorm(_)
BNorm(s) ==
    IF s = <<>> THEN <<>>
    ELSE IF s[Len(s)] = 0 THEN BNorm(SubSeq(s, 1, Len(s) - 1)) ELSE s

\* x + y + c, c a carry of 0 or 1
RECURSIVE BAddC(_, _, _)
BAddC(x, y, c) ==
    IF x = <<>> /\ y = <<>> THEN (IF c = 1 THEN <<1>> ELSE <<>>)
    ELSE LET xb == IF x = <<>> THEN 0 ELSE Head(x)
             yb == IF y = <<>> THEN 0 ELSE Head(y)
             s == xb + yb + c
         IN <<s % Base>> \o BAddC(IF x = <<>> THEN <<>> ELSE Tail(x),
                                  IF y = <<>> THEN <<>> ELSE Tail(y),
                                  s \div Base)

BAdd(x, y) == BAddC(x, y, 0)

\* the digits of x - y - c for x >= y + c, c a borrow of 0 or 1
RECURSIVE BSubC(_, _, _)
BSubC(x, y, c) ==
    IF x = <<>> THEN <<>>
    ELSE LET yb == IF y = <<>> THEN 0 ELSE Head(y)
             d == Head(x) - yb - c
         IN <<d % Base>> \o BSubC(Tail(x), IF y = <<>> THEN <<>> ELSE Tail(y),
                                  IF d < 0 THEN 1 ELSE 0)

BSub(x, y) == BNorm(BSubC(x, y, 0))

\* x < y from digit i down, for x and y of one length
RECURSIVE BLessAt(_, _, _)
BLessAt(x, y, i) ==
    IF i = 0 THEN FALSE
    ELSE IF x[i] # y[i] THEN x[i] < y[i] ELSE BLessAt(x, y, i - 1)

BLess(x, y) ==
    IF Len(x) # Len(y) THEN Len(x) < Len(y) ELSE BLessAt(x, y, Len(x))

\* x * k + c for a natural k below 2^14
RECURSIVE BMulC(_, _, _)
BMulC(x, k, c) ==
    IF x = <<>> THEN (IF c = 0 THEN <<>> ELSE <<c>>)
    ELSE LET p == Head(x) * k + c
         IN <<p % Base>> \o BMulC(Tail(x), k, p \div Base)

BMul(x, k) == IF k = 0 THEN <<>> ELSE BMulC(x, k, 0)

RECURSIVE FloorLog2(_)
FloorLog2(n) == IF n <= 1 THEN 0 ELSE 1 + FloorLog2(n \div 2)

\* the number of binary digits of x
BitLen(x) ==
    IF x = <<>> THEN 0 ELSE 16 * (Len(x) - 1) + FloorLog2(x[Len(x)]) + 1

\* the binary digit 2^i of x
Bit(x, i) ==
    LET l == i \div 16 + 1
    IN IF l > Len(x) THEN 0 ELSE (x[l] \div (2 ^ (i % 16))) % 2

\* x is a multiple of 2^j
LowZero(x, j) ==
    LET l == j \div 16
    IN /\ \A i \in 1..Min(l, Len(x)) : x[i] = 0
       /\ l + 1 <= Len(x) => x[l + 1] % (2 ^ (j % 16)) = 0

\* x \div 2^j
BShr(x, j) ==
    LET y == IF j \div 16 >= Len(x) THEN <<>>
             ELSE SubSeq(x, j \div 16 + 1, Len(x))
        r == j % 16
    IN BNorm([i \in 1..Len(y) |->
                (y[i] \div (2 ^ r))
                + (IF i < Len(y) THEN (y[i + 1] % (2 ^ r)) * (2 ^ (16 - r))
                   ELSE 0)])

\* x * 2^j
BShl(x, j) ==
    LET r == j % 16
    IN IF x = <<>> THEN <<>>
       ELSE [i \in 1..(j \div 16) |-> 0] \o
            BNorm([i \in 1..(Len(x) + 1) |->
                     (IF i <= Len(x) THEN (x[i] * (2 ^ r)) % Base ELSE 0)
                     + (IF i > 1 THEN x[i - 1] \div (2 ^ (16 - r)) ELSE 0)])

\* the multiple of 2^j nearest to x, of two equally near ones the even
\* multiple (IEEE 754 round to nearest, ties to even)
BRoundTo(x, j) ==
    LET q == BShr(x, j)
        half == j >= 1 /\ Bit(x, j - 1) = 1
        sticky == j >= 2 /\ ~LowZero(x, j - 1)
        odd == q # <<>> /\ q[1] % 2 = 1
    IN BShl(IF half /\ (sticky \/ odd) THEN BAdd(q, <<1>>) ELSE q, j)

\* the signed part s * T * 2^-106 of a coordinate; zero carries no sign
Tiny(neg, t) == [neg |-> neg /\ t # <<>>, t |-> t]

TinyAdd(p, q) ==
    IF p.neg = q.neg THEN Tiny(p.neg, BAdd(p.t, q.t))
    ELSE IF BLess(p.t, q.t) THEN Tiny(q.neg, BSub(q.t, p.t))
    ELSE Tiny(p.neg, BSub(p.t, q.t))

TinyLess(p, q) ==
    IF p.neg # q.neg THEN p.neg
    ELSE IF p.neg THEN BLess(q.t, p.t) ELSE BLess(p.t, q.t)

\* an f64 coordinate, and the coordinate h/2
F64(h, neg, t) == [h |-> h, neg |-> neg /\ t # <<>>, t |-> t]
FromHalf(h) == F64(h, FALSE, <<>>)
\* the coordinate with the whole value c
Whole(c) == FromHalf(2 * c)

\* the f64 nearest to the real h/2 + tiny, the rounding every f64 operation
\* applies to its exact result: 53 significant digits.  For h # 0 the value
\* lies in [2^e, 2^(e+1)) and the last digit kept is 2^(e-52), which is
\* 2^(e+54) in units of 2^-106; a value just below a power of two lies in
\* the binade under it
F64_nearest(h, tiny) ==
    IF h = 0
    THEN F64(0, tiny.neg,
             BRoundTo(tiny.t,
                      IF BitLen(tiny.t) > 53 THEN BitLen(tiny.t) - 53 ELSE 0))
    ELSE LET mag == Abs(h)
             below == tiny.t # <<>> /\ tiny.neg # (h < 0)
             pow2 == 2 ^ FloorLog2(mag) = mag
             e == FloorLog2(mag) - 1 - (IF below /\ pow2 THEN 1 ELSE 0)
         IN F64(h, tiny.neg, BRoundTo(tiny.t, e + 54))

\* f64 +
F64_add(u, v) ==
    F64_nearest(u.h + v.h, TinyAdd(Tiny(u.neg, u.t), Tiny(v.neg, v.t)))

\* f64 * by a whole number k
F64_mul(u, k) ==
    F64_nearest(u.h * k, Tiny(u.neg # (k < 0), BMul(u.t, Abs(k))))

\* f64 >
F64_gt(u, v) ==
    u.h > v.h \/ (u.h = v.h /\ TinyLess(Tiny(v.neg, v.t), Tiny(u.neg, u.t)))

\* f64::round() as i32: a part below half a unit matters only next to a
\* half, which it moves off the tie
F64_round(u) ==
    IF u.t = <<>> \/ u.h % 2 = 0 THEN Round(u.h)
    ELSE IF u.neg THEN (u.h - 1) \div 2 ELSE (u.h + 1) \div 2

\* for y in y0..=y1 { self.plot(x, y) }
RECURSIVE VLoop(_, _, _, _)
VLoop(self, x, y, y1) ==
    IF y > y1 THEN self ELSE VLoop(PPMImg_plot(self, x, y), x, y + 1, y1)

\* for x in x0..=x1 { self.plot(x, y) }
RECURSIVE HLoop(_, _, _, _)
HLoop(self, x, x1, y) ==
    IF x > x1 THEN self ELSE HLoop(PPMImg_plot(self, x, y), x + 1, x1, y)

\* the loop of octants 1 and 8: x steps, y follows the decision variable d
RECURSIVE Oct18Loop(_, _, _, _, _, _, _, _)
Oct18Loop(self, x, x1, y, d, y_inc, dy, ndx) ==
    IF x > x1 THEN self
    ELSE LET p == PPMImg_plot(self, x, y)
             y2 == IF d > 0 THEN y + y_inc ELSE y
             d2 == IF d > 0 THEN d + 2 * ndx ELSE d
         IN Oct18Loop(p, x + 1, x1, y2, d2 + 2 * dy, y_inc, dy, ndx)

\* the loop of octants 2 and 7: y steps, x follows the decision variable d
RECURSIVE Oct27Loop(_, _, _, _, _, _, _, _)
Oct27Loop(self, y, yend, x, d, x_inc, dy, ndx) ==
    IF y > yend THEN self
    ELSE LET p == PPMImg_plot(self, x, y)
             x2 == IF d > 0 THEN x + x_inc ELSE x
             d2 == IF d > 0 THEN d - 2 * dy ELSE d
         IN Oct27Loop(p, y + 1, yend, x2, d2 - 2 * ndx, x_inc, dy, ndx)

\* the vertical case walking from y0 to y1 as given
DrawVertical_unordered(self, x0, y0, y1) == VLoop(self, x0, y0, y1)

\* the vertical special case of draw_line (ndx == 0)
DrawVertical(self, x0, y0, y1) ==
    LET lo == IF y0 < y1 THEN y0 ELSE y1
        hi == IF y0 < y1 THEN y1 ELSE y0
    IN VLoop(self, x0, lo, hi)

\* the branch of draw_line for octants 1 and 8
DrawOct18(self, x0, y0, x1, dy, ndx) ==
    LET d == 2 * dy + ndx
        y_inc == IF dy > 0 THEN 1 ELSE -1
        dya == IF dy > 0 THEN dy ELSE -dy
    IN Oct18Loop(self, x0, x1, y0, d, y_inc, dya, ndx)

\* the branch of draw_line for octants 2 and 7
DrawOct27(self, x0, y0, y1, dy, ndx) ==
    LET d == 2 * (-ndx) - dy
        x == x0
    IN IF dy > 0
       THEN Oct27Loop(self, y0, y1, x, d, 1, dy, ndx)
       ELSE Oct27Loop(self, y1, y0, x - ndx, d, -1, -dy, ndx)

\* PPMImg::draw_line; ux0 .. uy1 are the f64 arguments
PPMImg_draw_line(self, ux0, uy0, ux1, uy1) ==
    LET sw == F64_gt(ux0, ux1)
        fx0 == IF sw THEN ux1 ELSE ux0
        fy0 == IF sw THEN uy1 ELSE uy0
        fx1 == IF sw THEN ux0 ELSE ux1
        fy1 == IF sw THEN uy0 ELSE uy1
        x0 == F64_round(fx0)
        y0 == F64_round(fy0)
        x1 == F64_round(fx1)
        y1 == F64_round(fy1)
        dy == y1 - y0
        ndx == -(x1 - x0)
    IN IF ndx = 0 THEN DrawVertical(self, x0, y0, y1)
       ELSE IF dy = 0 THEN HLoop(self, x0, x1, y0)
       ELSE IF Abs(y1 - y0) < Abs(x1 - x0)
            THEN DrawOct18(self, x0, y0, x1, dy, ndx)
            ELSE DrawOct27(self, x0, y0, y1, dy, ndx)

\* the result of render_edge_matrix: whether it panicked, and the surface as
\* the call left it
Rendered(self) == [panic |-> FALSE, msg |-> "", img |-> self]
RenderPanic(self, msg) == [panic |-> TRUE, msg |-> msg, img |-> self]

\* the loop ending quietly on a trailing row
RECURSIVE RenderLoop_quiet(_, _)
RenderLoop_quiet(self, chunks) ==
    IF chunks = <<>> THEN Rendered(self)
    ELSE LET point == Head(chunks)
             rest == Tail(chunks)
         IN IF Len(point) < 3 THEN RenderPanic(self, "index out of bounds")
            ELSE IF rest = <<>> THEN Rendered(self)
            ELSE LET p1 == Head(rest)
                 IN IF Len(p1) < 3 THEN RenderPanic(self, "index out of bounds")
                    ELSE RenderLoop_quiet(
                           PPMImg_draw_line(self, Whole(At(point, 0)), Whole(At(point, 1)),
                                            Whole(At(p1, 0)), Whole(At(p1, 1))),
                           Tail(rest))

\* while let Some(point) = iter.next() { ... iter.next() ... draw_line }
\* over the chunks still to come; the matrix cells are whole f64s
RECURSIVE RenderLoop(_, _)
RenderLoop(self, chunks) ==
    IF chunks = <<>> THEN Rendered(self)
    ELSE LET point == Head(chunks)
             rest == Tail(chunks)
         IN IF Len(point) < 3 THEN RenderPanic(self, "index out of bounds")
            ELSE IF rest = <<>>
                 THEN RenderPanic(self, "Number of edges must be a multiple of 2")
            ELSE LET p1 == Head(rest)
                 IN IF Len(p1) < 3 THEN RenderPanic(self, "index out of bounds")
                    ELSE RenderLoop(
                           PPMImg_draw_line(self, Whole(At(point, 0)), Whole(At(point, 1)),
                                            Whole(At(p1, 0)), Whole(At(p1, 1))),
                           Tail(rest))

\* PPMImg::render_edge_matrix
PPMImg_render_edge_matrix(self, m) ==
    LET iter == Matrix_iter_by_row(m)
    IN IF iter.panic THEN RenderPanic(self, iter.msg)
       ELSE RenderLoop(self, iter.val)

----------------------------------------------------------------------------
(* Turtle: src/src/graphics.rs.  The surface a turtle owns is the variable  *)
(* img; tur holds the turtle's own fields, x and y as f64 coordinates and   *)
(* angle_deg in whole degrees.                                              *)

\* the f64 of magnitude below 2^-50 whose significand has the digits limbs
\* and whose last binary digit is 2^(sh - 106)
SmallF64(neg, limbs, sh) == F64(0, neg, BShl(limbs, sh))

\* the angles of the model: the right angles turn_rt can leave in angle_deg
Headings == {-270, -180, -90, 0, 90, 180, 270}
\* the angles handed to turn_rt and to draw_line_degrees: a quarter turn
\* either way and a half turn
Turns == {-90, 90, 180}

\* angle_degrees.to_radians().sin_cos() at the right angles, <<sin, cos>> as
\* the platform's libm returns them: to_radians is angle * (PI / 180.0), an
\* f64 next to the multiple of pi/2 and not on it, so the sine or cosine that
\* would be 0 is a value near 2^-53 instead:
\*   cos(90) = cos(-90) = 0x1.1a62633145c07p-54,
\*   sin(180) = -sin(-180) = 0x1.1a62633145c07p-53,
\*   cos(270) = cos(-270) = -0x1.a79394c9e8a0ap-53
Cos90 == SmallF64(FALSE, <<23559, 13076, 42534, 17>>, 0)
Sin180 == SmallF64(FALSE, <<23559, 13076, 42534, 17>>, 1)
Cos270 == SmallF64(TRUE, <<35338, 19614, 31033, 26>>, 1)
SinNeg180 == SmallF64(TRUE, <<23559, 13076, 42534, 17>>, 1)

sin_cos_degrees(angle) ==
    CASE angle = 0 -> <<FromHalf(0), FromHalf(2)>>
      [] angle = 90 -> <<FromHalf(2), Cos90>>
      [] angle = 180 -> <<Sin180, FromHalf(-2)>>
      [] angle = 270 -> <<FromHalf(-2), Cos270>>
      [] angle = -90 -> <<FromHalf(-2), Cos90>>
      [] angle = -180 -> <<SinNeg180, FromHalf(-2)>>
      [] angle = -270 -> <<FromHalf(2), Cos270>>

\* utils::polar_to_xy for a whole magnitude: (dx * mag, dy * mag)
polar_to_xy(mag, angle_degrees) ==
    LET sc == sin_cos_degrees(angle_degrees)
        dy == sc[1]
        dx == sc[2]
    IN <<F64_mul(dx, mag), F64_mul(dy, mag)>>

\* PPMImg::draw_line_degrees: <<the surface, the end point it returns>>
PPMImg_draw_line_degrees(self, x0, y0, angle_degrees, mag) ==
    LET d == polar_to_xy(mag, angle_degrees)
        x1 == F64_add(x0, d[1])
        y1 == F64_add(y0, d[2])
    IN <<PPMImg_draw_line(self, x0, y0, x1, y1), <<x1, y1>>>>

\* PPMImg::new_turtle_at: the surface moves into the turtle
PPMImg_new_turtle_at(x, y) ==
    [live |-> TRUE, x |-> x, y |-> y, angle_deg |-> 0, pen_down |-> FALSE]

\* Turtle::forward: <<the turtle, its surface>>
Turtle_forward(self, surface, n) ==
    LET d == polar_to_xy(n, self.angle_deg)
        x1 == F64_add(self.x, d[1])
        y1 == F64_add(self.y, d[2])
    IN <<[self EXCEPT !.x = x1, !.y = y1],
         IF self.pen_down
         THEN PPMImg_draw_line(surface, self.x, self.y, x1, y1)
         ELSE surface>>

\* Turtle::turn_rt: f64 % on whole degrees, the sign that of the dividend
Turtle_turn_rt(self, angle_deg) ==
    [self EXCEPT !.angle_deg = Rem(self.angle_deg + angle_deg, 360)]

\* Turtle::move_to: <<the turtle, its surface>>
Turtle_move_to(self, surface, x, y) ==
    <<[self EXCEPT !.x = x, !.y = y],
      IF self.pen_down
      THEN PPMImg_draw_line(surface, self.x, self.y, x, y)
      ELSE surface>>

\* Turtle::set_color: the surface with its fg_color assigned
Turtle_set_color(surface, rgb) == [surface EXCEPT !.fg_color = rgb]

----------------------------------------------------------------------------
(* Inputs *)

\* the cells seed, seed + 1, ... of a buffer of n cells: distinct cells, so
\* that a wrong index shows
Fill(n, seed) == [i \in 1..n |-> seed + i - 1]

Seeds == 0..MaxSeed

\* the matrices Matrix::new accepts, up to MaxDim rows and columns
Mats ==
    {Matrix_new(r, c, Fill(r * c, s)).val :
        r \in 0..MaxDim, c \in 0..MaxDim, s \in Seeds}

\* the left operands handed to mul_mut_b in a sequence of mutations
LeftMats ==
    {Matrix_new(r, c, Fill(r * c, 0)).val : r \in 0..MaxDim, c \in 0..MaxDim}

\* the rows handed to append_row / append_edge: every length up to MaxDim
\* (so also the lengths the assertion rejects)
RowArgs == {Fill(n, s) : n \in 0..MaxDim, s \in Seeds}

NoCall == [op |-> "none", panic |-> FALSE]
NoTurtle == [live |-> FALSE]
IdleImg == PPMImg_new(1, 1, 1)

----------------------------------------------------------------------------
(* Single calls of the Matrix functions on drawn inputs *)

InitCalls ==
    /\ a \in Mats
    /\ b \in Mats
    /\ call = NoCall
    /\ steps = 0
    /\ img = IdleImg
    /\ tur = NoTurtle

\* b.get(row, col)
CallGet(row, col) ==
    /\ call.op = "none"
    /\ call' = [op |-> "get", panic |-> Matrix_get(b, row, col).panic,
                row |-> row, col |-> col, out |-> Matrix_get(b, row, col)]
    /\ UNCHANGED <<a, b, img, tur, steps>>

\* a.mul(&b): both operands are shared borrows
CallMul ==
    /\ call.op = "none"
    /\ call' = [op |-> "mul", panic |-> Matrix_mul(a, b).panic,
                a |-> a, b |-> b, out |-> Matrix_mul(a, b)]
    /\ UNCHANGED <<a, b, img, tur, steps>>

\* Matrix::mul_mut_b(&a, &mut b): b is assigned only when mul returns
CallMulMutB ==
    /\ call.op = "none"
    /\ LET res == Matrix_mul_mut_b(a, b)
       IN /\ b' = IF res.panic THEN b ELSE res.val
          /\ call' = [op |-> "mul_mut_b", panic |-> res.panic, a |-> a, b |-> b]
    /\ UNCHANGED <<a, img, tur, steps>>

\* Matrix::ident(size)
CallIdent(size) ==
    /\ call.op = "none"
    /\ call' = [op |-> "ident", panic |-> Matrix_ident(size).panic,
                size |-> size, out |-> Matrix_ident(size)]
    /\ UNCHANGED <<a, b, img, tur, steps>>

\* b.to_ident()
CallToIdent ==
    /\ call.op = "none"
    /\ b' = Matrix_to_ident(b)
    /\ call' = [op |-> "to_ident", panic |-> FALSE, b |-> b]
    /\ UNCHANGED <<a, img, tur, steps>>

\* one call per pair of matrices; the guard of the calls stands before the
\* choice of their arguments
NextCalls ==
    \/ /\ call.op = "none"
       /\ \E row \in 0..(MaxDim + 1), col \in 0..(MaxDim + 1) : CallGet(row, col)
    \/ CallMul
    \/ CallMulMutB
    \/ /\ call.op = "none"
       /\ \E size \in 0..(MaxDim + 1) : CallIdent(size)
    \/ CallToIdent

SpecCalls == InitCalls /\ [][NextCalls]_vars

----------------------------------------------------------------------------
(* One Matrix under a sequence of mutating calls *)

InitMatrix ==
    /\ a \in LeftMats
    /\ b \in Mats
    /\ call = NoCall
    /\ steps = 0
    /\ img = IdleImg
    /\ tur = NoTurtle

\* the effect of a mutating call on b: a panic (an assertion that fails
\* before anything is written) leaves b as it was and ends the run
Mutate(op, res) ==
    /\ ~call.panic
    /\ steps < MaxOps
    /\ b' = IF res.panic THEN b ELSE res.val
    /\ call' = [op |-> op, panic |-> res.panic]
    /\ steps' = steps + 1
    /\ UNCHANGED <<a, img, tur>>

DoSet(row, col, v) == Mutate("set", Matrix_set(b, row, col, v))
DoAppendRow(row) == Mutate("append_row", Matrix_append_row(b, row))
DoAppendEdge(edge) == Mutate("append_edge", Matrix_append_edge(b, edge))
DoMulMutB == Mutate("mul_mut_b", Matrix_mul_mut_b(a, b))
DoToIdent == Mutate("to_ident", Ok(Matrix_to_ident(b)))

\* the run goes on until a call panics or MaxOps calls were made
Running(max) == ~call.panic /\ steps < max

NextMatrix ==
    \/ /\ Running(MaxOps)
       /\ \E row \in 0..b.rows, col \in 0..b.cols, v \in Seeds : DoSet(row, col, v)
    \/ /\ Running(MaxOps)
       /\ \E row \in RowArgs : DoAppendRow(row)
    \/ /\ Running(MaxOps)
       /\ \E edge \in RowArgs : DoAppendEdge(edge)
    \/ DoMulMutB
    \/ DoToIdent

SpecMatrix == InitMatrix /\ [][NextMatrix]_vars

----------------------------------------------------------------------------
(* Properties of the Matrix *)

\* the cell (r, c) of a row-major matrix
Cell(m, r, c) == At(m.data, r * m.cols + c)

\* the sum over j < k of A[r, j] * B[j, c]
RECURSIVE DotSum(_, _, _, _, _)
DotSum(A, B, r, c, k) ==
    IF k = 0 THEN 0
    ELSE DotSum(A, B, r, c, k - 1) + Cell(A, r, k - 1) * Cell(B, k - 1, c)

\* P is the matrix product A * B
IsProduct(P, A, B) ==
    /\ P.rows = A.rows
    /\ P.cols = B.cols
    /\ Len(P.data) = A.rows * B.cols
    /\ \A r \in 0..(A.rows - 1), c \in 0..(B.cols - 1) :
          Cell(P, r, c) = DotSum(A, B, r, c, A.cols)

\* m is the size x size matrix with 1 on the diagonal and 0 elsewhere
IsIdentity(m, size) ==
    /\ m.rows = size
    /\ m.cols = size
    /\ Len(m.data) = size * size
    /\ \A r \in 0..(size - 1), c \in 0..(size - 1) :
          Cell(m, r, c) = IF r = c THEN 1 ELSE 0

\* C1: get(row, col) returns None, and neither panics nor returns a cell,
\* whenever row >= rows or col >= cols, the boundary row == rows and
\* col == cols included.
C1_GetOutOfRangeIsNone ==
    (call.op = "get" /\ (call.row >= b.rows \/ call.col >= b.cols))
        => (~call.out.panic /\ ~call.out.val.some)

\* C2: in every state reached from Matrix::new by set, append_row,
\* append_edge, mul_mut_b and to_ident calls, the buffer length is
\* rows * cols.
C2_BufferLen == Len(b.data) = b.rows * b.cols

C2_Witness ==
    /\ steps = MaxOps
    /\ call.op = "append_edge"
    /\ ~call.panic
    /\ b.rows >= 2
    /\ b.cols >= 2

\* C7: a.mul(b) is the a.rows x b.cols matrix of the dot products of a's rows
\* with b's columns and leaves a and b as they were; mul_mut_b(a, b) leaves b
\* equal to that product and a as it was; both panic exactly when
\* a.cols != b.rows.
C7_MulIsProduct ==
    /\ call.op = "mul" =>
          /\ a = call.a
          /\ b = call.b
          /\ call.out.panic <=> (call.a.cols # call.b.rows)
          /\ ~call.out.panic => IsProduct(call.out.val, call.a, call.b)
    /\ call.op = "mul_mut_b" =>
          /\ a = call.a
          /\ call.panic <=> (call.a.cols # call.b.rows)
          /\ ~call.panic => IsProduct(b, call.a, call.b)

C7_Witness ==
    /\ call.op = "mul_mut_b"
    /\ ~call.panic
    /\ call.a.rows = 1
    /\ call.a.cols = 2
    /\ call.b.cols = 2
    /\ b # call.b
    /\ b.rows = 1

\* C9: for size >= 1, ident(size) is the size x size matrix with 1 on the
\* diagonal and 0 elsewhere, and to_ident on a size x size matrix, whatever
\* it held, leaves it equal to ident(size), rows and cols unchanged.
C9_IdentIsIdentity ==
    /\ (call.op = "ident" /\ call.size >= 1) =>
          /\ ~call.out.panic
          /\ IsIdentity(call.out.val, call.size)
    /\ (call.op = "to_ident" /\ call.b.rows = call.b.cols /\ call.b.rows >= 1) =>
          /\ b.rows = call.b.rows
          /\ b.cols = call.b.cols
          /\ IsIdentity(b, call.b.rows)
          /\ b = Matrix_ident(call.b.rows).val

C9_Witness ==
    /\ call.op = "to_ident"
    /\ call.b.rows = 2
    /\ call.b.cols = 2
    /\ \A i \in 1..4 : call.b.data[i] # 0
    /\ b # call.b

----------------------------------------------------------------------------
(* Inputs of the surfaces *)

\* the colours assigned to fg_color / bg_color: greys from black up to one
\* past the depth (a u16 channel is not tied to the depth by its type)
Colors(depth) == {RGB(v, v, v) : v \in 0..(depth + 1)}

\* a surface as new leaves it, with the public wrap flags assigned
Surface(h, w, d, xw, yw) ==
    [PPMImg_new(h, w, d) EXCEPT !.x_wrap = xw, !.y_wrap = yw]

----------------------------------------------------------------------------
(* One plot on a surface that holds earlier plots *)

\* a surface on which every pixel whose index is a multiple of k was plotted
\* with the foreground of the time, a grey of level 1, before fg_color was
\* set back (k = 0: a fresh surface)
Plotted(h, w, d, xw, yw, k) ==
    LET s == Surface(h, w, d, xw, yw)
    IN [s EXCEPT !.data = [i \in 1..(w * h) |->
                             IF k > 0 /\ (i - 1) % k = 0
                             THEN RGB(1, 1, 1) ELSE s.bg_color]]

InitPlot ==
    /\ \E h \in 1..MaxExt, w \in 1..MaxExt, xw \in BOOLEAN, yw \in BOOLEAN,
          k \in 0..MaxExt :
          img = [Plotted(h, w, MaxDepth + 1, xw, yw, k)
                    EXCEPT !.fg_color = RGB(MaxDepth + 1, MaxDepth, 0)]
    /\ call = NoCall
    /\ steps = 0
    /\ a = Matrix(0, 0, <<>>)
    /\ b = Matrix(0, 0, <<>>)
    /\ tur = NoTurtle

\* img.plot(x, y)
Plot(x, y) ==
    /\ call.op = "none"
    /\ img' = PPMImg_plot(img, x, y)
    /\ call' = [op |-> "plot", panic |-> FALSE, x |-> x, y |-> y]
    /\ UNCHANGED <<a, b, tur, steps>>

NextPlot ==
    /\ call.op = "none"
    /\ \E x \in (-(2 * MaxExt + 1))..(2 * MaxExt + 1),
          y \in (-(2 * MaxExt + 1))..(2 * MaxExt + 1) : Plot(x, y)

SpecPlot == InitPlot /\ [][NextPlot]_vars

----------------------------------------------------------------------------
(* One surface under a sequence of calls and field assignments *)

InitImg ==
    /\ \E h \in 1..MaxExt, w \in 1..MaxExt, d \in 1..MaxDepth :
          img = PPMImg_new(h, w, d)
    /\ call = NoCall
    /\ steps = 0
    /\ a = Matrix(0, 0, <<>>)
    /\ b = Matrix(0, 0, <<>>)
    /\ tur = NoTurtle

\* one call on the surface: none of them panics
ImgStep(op, surface) ==
    /\ steps < MaxImgOps
    /\ img' = surface
    /\ call' = [op |-> op, panic |-> FALSE]
    /\ steps' = steps + 1
    /\ UNCHANGED <<a, b, tur>>

ImgPlot(x, y) == ImgStep("plot", PPMImg_plot(img, x, y))
ImgDrawLine(x0, y0, x1, y1) ==
    ImgStep("draw_line",
            PPMImg_draw_line(img, FromHalf(x0), FromHalf(y0),
                             FromHalf(x1), FromHalf(y1)))
\* img.draw_line_degrees(x0, y0, angle, mag); the end point it returns is
\* dropped by the caller
ImgDrawLineDegrees(x0, y0, angle, mag) ==
    ImgStep("draw_line_degrees",
            PPMImg_draw_line_degrees(img, FromHalf(x0), FromHalf(y0),
                                     angle, mag)[1])
ImgClear == ImgStep("clear", PPMImg_clear(img))
\* the public fields fg_color, bg_color, x_wrap, y_wrap
ImgSetFg(c) == ImgStep("fg_color", [img EXCEPT !.fg_color = c])
ImgSetBg(c) == ImgStep("bg_color", [img EXCEPT !.bg_color = c])
ImgSetXWrap(v) == ImgStep("x_wrap", [img EXCEPT !.x_wrap = v])
ImgSetYWrap(v) == ImgStep("y_wrap", [img EXCEPT !.y_wrap = v])

\* the endpoints of the lines drawn in a sequence, in half units: 0 and half
\* a pixel short of the extent (which rounds to the extent)
LineEnds(ext) == {0, 2 * ext - 1}

NextImg ==
    \/ /\ Running(MaxImgOps)
       /\ \E x \in (-1)..img.width, y \in (-1)..img.height : ImgPlot(x, y)
    \/ /\ Running(MaxImgOps)
       /\ \E x0 \in LineEnds(img.width), y0 \in LineEnds(img.height),
             x1 \in LineEnds(img.width), y1 \in LineEnds(img.height) :
             ImgDrawLine(x0, y0, x1, y1)
    \/ /\ Running(MaxImgOps)
       /\ \E x0 \in LineEnds(img.width), y0 \in LineEnds(img.height),
             angle \in Turns :
             ImgDrawLineDegrees(x0, y0, angle, img.width)
    \/ ImgClear
    \/ \E c \in Colors(img.depth) : ImgSetFg(c)
    \/ \E c \in Colors(img.depth) : ImgSetBg(c)
    \/ \E v \in BOOLEAN : ImgSetXWrap(v)
    \/ \E v \in BOOLEAN : ImgSetYWrap(v)

SpecImg == InitImg /\ [][NextImg]_vars

----------------------------------------------------------------------------
(* One turtle on the surface it was made from *)

\* whole pixel positions in and next to a surface, in half units
Positions(ext) == {2 * v : v \in (-1)..ext}

InitTurtle ==
    /\ \E h \in 1..MaxExt, w \in 1..MaxExt, d \in 1..MaxDepth :
          /\ img = PPMImg_new(h, w, d)
          /\ \E x \in Positions(w), y \in Positions(h) :
                tur = PPMImg_new_turtle_at(FromHalf(x), FromHalf(y))
    /\ call = NoCall
    /\ steps = 0
    /\ a = Matrix(0, 0, <<>>)
    /\ b = Matrix(0, 0, <<>>)

\* one call on the turtle: <<the turtle, its surface>> after it
TurtleStep(op, after) ==
    /\ tur.live
    /\ steps < MaxTurtleOps
    /\ tur' = after[1]
    /\ img' = after[2]
    /\ call' = [op |-> op, panic |-> FALSE]
    /\ steps' = steps + 1
    /\ UNCHANGED <<a, b>>

TurtleForward(n) == TurtleStep("forward", Turtle_forward(tur, img, n))
TurtleTurnRt(angle) == TurtleStep("turn_rt", <<Turtle_turn_rt(tur, angle), img>>)
TurtleMoveTo(x, y) ==
    TurtleStep("move_to", Turtle_move_to(tur, img, FromHalf(x), FromHalf(y)))
TurtleSetColor(c) == TurtleStep("set_color", <<tur, Turtle_set_color(img, c)>>)
\* the public fields pen_down and angle_deg
TurtlePen(v) == TurtleStep("pen_down", <<[tur EXCEPT !.pen_down = v], img>>)
TurtleSetAngle(v) == TurtleStep("angle_deg", <<[tur EXCEPT !.angle_deg = v], img>>)
\* Turtle::get_ppm_img: the turtle is consumed, the surface handed back
TurtleGetPpmImg == TurtleStep("get_ppm_img", <<NoTurtle, img>>)

NextTurtle ==
    \/ \E n \in (-1)..MaxExt : TurtleForward(n)
    \/ \E angle \in Turns : TurtleTurnRt(angle)
    \/ \E v \in Headings : TurtleSetAngle(v)
    \/ /\ Running(MaxTurtleOps)
       /\ \E x \in Positions(img.width), y \in Positions(img.height) :
             TurtleMoveTo(x, y)
    \/ \E c \in Colors(img.depth) : TurtleSetColor(c)
    \/ \E v \in BOOLEAN : TurtlePen(v)
    \/ TurtleGetPpmImg

SpecTurtle == InitTurtle /\ [][NextTurtle]_vars

----------------------------------------------------------------------------
(* Single draw_line and render_edge_matrix calls on a fresh surface *)

\* the cells of an edge list: coordinates in 0..MaxCoord that change from
\* row to row
EdgeFill(n, s) == [i \in 1..n |-> ((i - 1) * (s + 2) + s) % (MaxCoord + 1)]

EdgeMats ==
    {Matrix_new(r, c, EdgeFill(r * c, s)).val :
        r \in 0..MaxEdgeRows, c \in 0..MaxEdgeCols, s \in Seeds}

InitLine ==
    /\ \E xw \in BOOLEAN, yw \in BOOLEAN :
          img = Surface(MaxCoord, MaxCoord, MaxDepth, xw, yw)
    /\ call = NoCall
    /\ steps = 0
    /\ a = Matrix(0, 0, <<>>)
    /\ b = Matrix(0, 0, <<>>)
    /\ tur = NoTurtle

\* img.draw_line(x0, y0, x1, y1), the arguments in half units
Line(x0, y0, x1, y1) ==
    /\ call.op = "none"
    /\ img' = PPMImg_draw_line(img, FromHalf(x0), FromHalf(y0),
                                FromHalf(x1), FromHalf(y1))
    /\ call' = [op |-> "draw_line", panic |-> FALSE, before |-> img,
                x0 |-> x0, y0 |-> y0, x1 |-> x1, y1 |-> y1]
    /\ UNCHANGED <<a, b, tur, steps>>

\* img.render_edge_matrix(&m): what was drawn before a panic stays drawn
Render(m) ==
    /\ call.op = "none"
    /\ LET res == PPMImg_render_edge_matrix(img, m)
       IN /\ img' = res.img
          /\ call' = [op |-> "render_edge_matrix", panic |-> res.panic,
                      msg |-> res.msg, before |-> img, m |-> m]
    /\ UNCHANGED <<a, b, tur, steps>>

HalfCoords == (-2)..(2 * MaxCoord)

\* one call per surface: the guard stands before the choice of arguments
NextLine ==
    \/ /\ call.op = "none"
       /\ \E x0 \in HalfCoords, y0 \in HalfCoords,
             x1 \in HalfCoords, y1 \in HalfCoords : Line(x0, y0, x1, y1)
    \/ /\ call.op = "none"
       /\ \E m \in EdgeMats : Render(m)

SpecLine == InitLine /\ [][NextLine]_vars

----------------------------------------------------------------------------
(* Properties of the surface *)

\* the pixel (x, y) of a surface
Pixel(s, x, y) == At(s.data, y * s.width + x)

\* the positions of a surface that hold its foreground colour
FgPixels(s) ==
    {<<x, y>> \in (0..(s.width - 1)) \X (0..(s.height - 1)) :
        Pixel(s, x, y) = s.fg_color}

\* C3: every colour stored in the pixel buffer has red, green and blue each
\* <= the surface's depth, whatever colour changes, plots, lines and turtle
\* moves were made.
C3_ColorsWithinDepth ==
    \A i \in 1..Len(img.data) :
        /\ img.data[i].red <= img.depth
        /\ img.data[i].green <= img.depth
        /\ img.data[i].blue <= img.depth

\* C4: draw_line(x0, y0, x1, y1) and draw_line(x1, y1, x0, y0), each on the
\* same fresh surface, set the same set of pixels to the foreground colour.
C4_LineSymmetric ==
    call.op = "draw_line" =>
        FgPixels(img) =
            FgPixels(PPMImg_draw_line(call.before,
                                      FromHalf(call.x1), FromHalf(call.y1),
                                      FromHalf(call.x0), FromHalf(call.y0)))

C4_Witness ==
    /\ call.op = "draw_line"
    /\ call.x0 > call.x1
    /\ Round(call.x0) # Round(call.x1)
    /\ Round(call.y0) # Round(call.y1)
    /\ Cardinality(FgPixels(img)) >= 3

\* what C5 says of one plot(x, y) taking the surface s to the surface t
PlotEffect(s, t, x, y) ==
    IF \/ (~s.x_wrap /\ (x < 0 \/ x >= s.width))
       \/ (~s.y_wrap /\ (y < 0 \/ y >= s.height))
    THEN t = s
    ELSE LET i == (y % s.height) * s.width + (x % s.width)
         IN /\ i \in 0..(Len(s.data) - 1)
            /\ t = [s EXCEPT !.data = t.data]
            /\ Len(t.data) = Len(s.data)
            /\ t.data[i + 1] = s.fg_color
            /\ \A j \in 1..Len(s.data) : j # i + 1 => t.data[j] = s.data[j]

\* C5: plot(x, y) leaves the buffer as it was when wraparound is off on an
\* axis and the coordinate on that axis is outside [0, extent); otherwise it
\* sets the one pixel (x mod width, y mod height), the remainders
\* non-negative, to the foreground colour and leaves every other pixel.
C5_PlotEffect == [][call'.op = "plot" => PlotEffect(img, img', call'.x, call'.y)]_vars

C5_Witness ==
    /\ call.op = "plot"
    /\ img.x_wrap
    /\ img.y_wrap
    /\ img.width = 2
    /\ img.height = 2
    /\ call.x = -3
    /\ call.y = 3
    /\ Pixel(img, 1, 1) = img.fg_color
    /\ Pixel(img, 0, 0) # img.fg_color

\* C6 as amended: clear() leaves every pixel equal to the background colour
\* the surface has at the call, the buffer length unchanged.
C6_ClearToCurrentBg ==
    call.op = "clear" =>
        /\ Len(img.data) = img.width * img.height
        /\ \A i \in 1..Len(img.data) : img.data[i] = img.bg_color

\* C6 as claimed: after any sequence of plots, line draws and colour changes,
\* clear() leaves every pixel equal to the background colour the surface had
\* at construction, the buffer length unchanged.
C6_ClearToConstructionBg ==
    call.op = "clear" =>
        /\ Len(img.data) = img.width * img.height
        /\ \A i \in 1..Len(img.data) :
              img.data[i] = PPMImg_new(img.height, img.width, img.depth).bg_color

C6_Witness ==
    /\ call.op = "clear"
    /\ steps = MaxImgOps
    /\ img.bg_color # PPMImg_new(img.height, img.width, img.depth).bg_color
    /\ Len(img.data) >= 2

\* the surface after the lines of the first k pairs of rows of m
RECURSIVE LinesOf(_, _, _)
LinesOf(s, m, k) ==
    IF k = 0 THEN s
    ELSE PPMImg_draw_line(LinesOf(s, m, k - 1),
                          Whole(Cell(m, 2 * k - 2, 0)), Whole(Cell(m, 2 * k - 2, 1)),
                          Whole(Cell(m, 2 * k - 1, 0)), Whole(Cell(m, 2 * k - 1, 1)))

\* what C8 says of the render_edge_matrix call recorded in call
RenderEffect ==
    /\ call.panic <=> (call.m.rows % 2 = 1)
    /\ call.panic => call.msg = "Number of edges must be a multiple of 2"
    /\ img = LinesOf(call.before, call.m, call.m.rows \div 2)

\* C8 as amended: on a matrix of at least 3 columns, render_edge_matrix draws
\* one line per pair of rows, from (row 2i [0], row 2i [1]) to
\* (row 2i+1 [0], row 2i+1 [1]); it ends in the "must be a multiple of 2"
\* panic when the row count is odd and returns when it is even.
C8_RenderEdgeMatrix ==
    (call.op = "render_edge_matrix" /\ call.m.cols >= 3) => RenderEffect

\* C8 as claimed: the same of every matrix.
C8_RenderAnyMatrix == call.op = "render_edge_matrix" => RenderEffect

C8_Witness ==
    /\ call.op = "render_edge_matrix"
    /\ call.m.rows = 5
    /\ call.m.cols = 4
    /\ call.panic
    /\ FgPixels(LinesOf(call.before, call.m, 1)) # {}
    /\ FgPixels(img) # FgPixels(LinesOf(call.before, call.m, 1))

\* C10: for integer endpoints inside a surface with wraparound off,
\* draw_line sets both endpoint pixels to the foreground colour, and every
\* pixel it sets lies in the bounding box of the endpoints.
C10_EndpointsAndBox ==
    (/\ call.op = "draw_line"
     /\ ~img.x_wrap /\ ~img.y_wrap
     /\ \A h \in {call.x0, call.y0, call.x1, call.y1} : h % 2 = 0
     /\ \A h \in {call.x0, call.x1} : h \div 2 \in 0..(img.width - 1)
     /\ \A h \in {call.y0, call.y1} : h \div 2 \in 0..(img.height - 1))
    => LET x0 == call.x0 \div 2
           y0 == call.y0 \div 2
           x1 == call.x1 \div 2
           y1 == call.y1 \div 2
       IN /\ <<x0, y0>> \in FgPixels(img)
          /\ <<x1, y1>> \in FgPixels(img)
          /\ \A p \in FgPixels(img) :
                /\ Min(x0, x1) <= p[1] /\ p[1] <= x0 + x1 - Min(x0, x1)
                /\ Min(y0, y1) <= p[2] /\ p[2] <= y0 + y1 - Min(y0, y1)

====
